---- MODULE Spec2Model ----
(***************************************************************************)
(* A model of three thinc layers: Dropout (layers/dropout.py), with_array2d *)
(* (layers/with_array2d.py) and with_padded (layers/with_padded.py).        *)
(*                                                                         *)
(* Arrays are nested sequences (a 2d array is a sequence of rows, a 3d     *)
(* array a sequence of 2d arrays).  The sequence types are records tagged  *)
(* by `kind`; a Python isinstance test is a test of `kind`.  A backward    *)
(* closure is the record of the values it captured at forward time.        *)
(***************************************************************************)
EXTENDS Integers, Sequences, FiniteSets, TLC

VARIABLES
    attrs,      \* model.attrs of the layer under study
    layer,      \* model.layers[0]: which wrapped transform the adapter holds
    dims,       \* the adapter's own dimension table
    layerDims,  \* the wrapped transform's dimension table
    closures,   \* the backward closures created so far (captured values)
    hist,       \* per closure: the forward call that created it
    rng,        \* how many masks the random source has handed out
    last        \* the last call: its arguments, its result, what it invoked

vars == <<attrs, layer, dims, layerDims, closures, hist, rng, last>>

\* ------------------------------------------------------------------ bounds
MaxLen == 2        \* rows of one item
MaxItems == 2      \* items of one list, batch size
MaxFeat == 2       \* feature dimension
MaxTag == 2        \* distinct contents per shape
MaxPad == 1        \* the pad attribute of with_array2d
MaxClosures == 2   \* closures kept alive at once
PadLen == 3        \* rows of one item given to with_padded
PadItems == 3      \* items of one list given to with_padded
DropLen == 1       \* rows of one item given to Dropout

\* Python's None, and a value that is not None.
None == <<>>
Some(v) == <<v>>

\* ------------------------------------------------------------------ arrays
Shape2(A) == <<Len(A), Len(A[1])>>
Shape3(A) == <<Len(A), Len(A[1]), Len(A[1][1])>>

\* The array of shape (n, f) whose cells name their own tag, row and column.
Arr(n, f, tag) == [r \in 1..n |-> [c \in 1..f |-> 100 * tag + 10 * r + c]]

ZeroRow(f) == [c \in 1..f |-> 0]

\* X * mask on 2d and 3d arrays (elementwise).
Mul2(A, M) == [r \in DOMAIN A |-> [c \in DOMAIN A[r] |-> A[r][c] * M[r][c]]]
Mul3(A, M) == [t \in DOMAIN A |-> Mul2(A[t], M[t])]

RECURSIVE SumSeq(_)
SumSeq(s) == IF s = <<>> THEN 0 ELSE Head(s) + SumSeq(Tail(s))

RECURSIVE Concat(_)
Concat(ss) == IF ss = <<>> THEN <<>> ELSE Head(ss) \o Concat(Tail(ss))

\* ------------------------------------------------------- array primitives
\* ops.flatten(Xs, pad): the items in order, a gap of `pad` zero rows between
\* consecutive items.
RECURSIVE Flatten(_, _)
Flatten(Xs, pad) ==
    IF Len(Xs) = 0 THEN <<>>
    ELSE IF Len(Xs) = 1 THEN Xs[1]
    ELSE Xs[1] \o [k \in 1..pad |-> ZeroRow(Len(Xs[1][1]))] \o Flatten(Tail(Xs), pad)

\* X[a:b] of Python, from 1: a slice past the end is cut short, not an error.
Slice(X, a, b) == SubSeq(X, a, IF b > Len(X) THEN Len(X) ELSE b)

\* ops.unflatten(X, lengths, pad): split by the lengths, skipping the gaps.
RECURSIVE Unflatten(_, _, _)
Unflatten(X, lengths, pad) ==
    IF Len(lengths) = 0 THEN <<>>
    ELSE IF Len(lengths) = 1 THEN <<Slice(X, 1, lengths[1])>>
    ELSE <<Slice(X, 1, lengths[1])>>
         \o Unflatten(Slice(X, lengths[1] + pad + 1, Len(X)), Tail(lengths), pad)

\* A reshape keeps the cells in row-major order and regroups them.
\* ndarray.reshape(shape) of a 2d array to a 2d shape:
ReshapeTo(A, shape) ==
    LET flat == Concat(A)
    IN [r \in 1..shape[1] |-> SubSeq(flat, (r - 1) * shape[2] + 1, r * shape[2])]

\* ops.reshape2(X3, n, f) of a 3d array: n rows of f cells.
Reshape2(X3, n, f) == ReshapeTo(Concat(X3), <<n, f>>)

\* ops.reshape3f(X2, T, B, f) of a 2d array: T blocks of B rows of f cells.
Reshape3(X2, T, B, f) ==
    LET rows == ReshapeTo(X2, <<T * B, f>>)
    IN [t \in 1..T |-> SubSeq(rows, (t - 1) * B + 1, t * B)]

\* ops.get_dropout_mask(shape, rate): every cell is kept, and scaled by
\* 1 / (1 - rate), or dropped.  The rate is a percentage.
MaskScale(rate) == 100 \div (100 - rate)
Masks2(shape, rate) == [1..shape[1] -> [1..shape[2] -> {0, MaskScale(rate)}]]
Masks3(shape, rate) ==
    [1..shape[1] -> [1..shape[2] -> [1..shape[3] -> {0, MaskScale(rate)}]]]

\* ------------------------------------------------------- sequence types
Array(data) == [kind |-> "array", data |-> data]
List(items) == [kind |-> "list", items |-> items]
Tuple(items) == [kind |-> "tuple", items |-> items]
Ragged(data, lengths) == [kind |-> "ragged", data |-> data, lengths |-> lengths]
Padded(data, size_at_t, lengths, indices) ==
    [kind |-> "padded", data |-> data, size_at_t |-> size_at_t,
     lengths |-> lengths, indices |-> indices]

Lengths(Xs) == [i \in DOMAIN Xs |-> Len(Xs[i])]

MaxOf(s) == CHOOSE m \in {s[i] : i \in DOMAIN s} : \A i \in DOMAIN s : s[i] <= m

\* The batch order of list2padded: by descending length, ties in input order.
SortedOrder(lens) ==
    LET n == Len(lens)
    IN CHOOSE p \in [1..n -> 1..n] :
          /\ \A a, b \in 1..n : a # b => p[a] # p[b]
          /\ \A a, b \in 1..n : a < b =>
                \/ lens[p[a]] > lens[p[b]]
                \/ lens[p[a]] = lens[p[b]] /\ p[a] < p[b]

\* ops.list2padded(Xs): time-major, the batch sorted by descending length,
\* rows past an item's length zero; size_at_t counts the items still active,
\* lengths are the items' lengths in input order, indices[b] is the input
\* position (from 0) of batch entry b.
List2Padded(Xs) ==
    LET n == Len(Xs)
        lens == Lengths(Xs)
        p == SortedOrder(lens)
        f == Len(Xs[1][1])
    IN Padded([t \in 1..MaxOf(lens) |->
                  [b \in 1..n |-> IF t <= lens[p[b]] THEN Xs[p[b]][t] ELSE ZeroRow(f)]],
              [t \in 1..MaxOf(lens) |-> Cardinality({i \in 1..n : lens[i] >= t})],
              lens,
              [b \in 1..n |-> p[b] - 1])

\* ops.padded2list(P): item i is the first lengths[i] steps of the batch entry
\* that indices sends to i.
Padded2List(P) ==
    LET n == Len(P.lengths)
    IN [i \in 1..n |->
          LET b == CHOOSE b \in 1..n : P.indices[b] = i - 1
          IN [t \in 1..P.lengths[i] |-> P.data[t][b]]]

\* ------------------------------------------------------------- the inputs
\* Item i of a list carries the tag 10 * tags[i] + i: the items of one list
\* differ from each other, and tags[i] = 0 is the content the inputs have.
ListOf(lens, tags, f) == [i \in DOMAIN lens |-> Arr(lens[i], f, 10 * tags[i] + i)]
LenSeqs(maxlen, maxitems) == UNION {[1..k -> 1..maxlen] : k \in 1..maxitems}
Lists(f, maxlen, maxitems) ==
    {ListOf(lens, [i \in DOMAIN lens |-> 0], f) : lens \in LenSeqs(maxlen, maxitems)}
Arrays2(f, maxlen) == {Arr(n, f, 1) : n \in 1..maxlen}

SeqInputs(f, maxlen, maxitems) ==
    {Array(A) : A \in Arrays2(f, maxlen)}
    \cup {List(Xs) : Xs \in Lists(f, maxlen, maxitems)}
    \cup {Ragged(Flatten(Xs, 0), Lengths(Xs)) : Xs \in Lists(f, maxlen, maxitems)}
    \cup {List2Padded(Xs) : Xs \in Lists(f, maxlen, maxitems)}

\* The same container with the cells of another tag: a gradient shaped like Z.
Retag2(A, tag) == Arr(Len(A), Len(A[1]), tag)
Retag3(A, tag) == [t \in DOMAIN A |-> Arr(Len(A[t]), Len(A[t][1]), 10 * tag + t)]
Retag(Z, tag) ==
    CASE Z.kind = "array" -> Array(Retag2(Z.data, tag))
      [] Z.kind = "list" ->
            List([i \in DOMAIN Z.items |-> Retag2(Z.items[i], 10 * tag + i)])
      [] Z.kind = "ragged" -> Ragged(Retag2(Z.data, tag), Z.lengths)
      [] Z.kind = "padded" ->
            Padded(Retag3(Z.data, tag), Z.size_at_t, Z.lengths, Z.indices)
GradsLike(Z) == {Retag(Z, tag) : tag \in 1..MaxTag}

\* ---------------------------------------------------------------- Dropout
\* Dropout is studied on inputs of one feature: the mask is elementwise and
\* does not read the cells.
DropoutInputs == SeqInputs(1, DropLen, MaxItems)
Rates == {0, 50}

\* forward, the test of its first branch.
Dropout_is_identity_no_train(a, is_train) ==
    LET rate == a.dropout_rate
        is_enabled == a.is_enabled
    IN rate = 0 \/ ~is_enabled

Dropout_is_identity(a, is_train) ==
    LET rate == a.dropout_rate
        is_enabled == a.is_enabled /\ is_train
    IN rate = 0 \/ ~is_enabled

\* The masks one forward call asks the random source for, in order.
Dropout_draws(a, X, is_train) ==
    LET rate == a.dropout_rate
    IN IF Dropout_is_identity(a, is_train) THEN {<<>>}
       ELSE IF X.kind = "ragged" THEN {<<m>> : m \in Masks2(Shape2(X.data), rate)}
       ELSE IF X.kind = "padded" THEN {<<m>> : m \in Masks3(Shape3(X.data), rate)}
       ELSE IF X.kind = "list" THEN
            {ms \in [DOMAIN X.items ->
                        UNION {Masks2(Shape2(X.items[i]), rate) : i \in DOMAIN X.items}] :
                \A i \in DOMAIN X.items : ms[i] \in Masks2(Shape2(X.items[i]), rate)}
       ELSE {<<m>> : m \in Masks2(Shape2(X.data), rate)}

dropout_array(X, mask) ==
    [Y |-> Array(Mul2(X.data, mask)), ctx |-> [fn |-> "array", mask |-> mask]]

dropout_padded(Xp, mask) ==
    [Y |-> Padded(Mul3(Xp.data, mask), Xp.size_at_t, Xp.lengths, Xp.indices),
     ctx |-> [fn |-> "padded", mask |-> mask]]

dropout_ragged(Xr, mask) ==
    [Y |-> Ragged(Mul2(Xr.data, mask), Xr.lengths),
     ctx |-> [fn |-> "ragged", mask |-> mask]]

dropout_lists(Xs, masks) ==
    [Y |-> List([i \in DOMAIN Xs.items |-> Mul2(Xs.items[i], masks[i])]),
     ctx |-> [fn |-> "lists", masks |-> masks]]

\* forward: the output and the closure, given the masks the call drew.
Dropout_forward(a, X, is_train, draw) ==
    IF Dropout_is_identity(a, is_train) THEN [Y |-> X, ctx |-> [fn |-> "identity"]]
    ELSE IF X.kind = "ragged" THEN dropout_ragged(X, draw[1])
    ELSE IF X.kind = "padded" THEN dropout_padded(X, draw[1])
    ELSE IF X.kind = "list" THEN dropout_lists(X, draw)
    ELSE dropout_array(X, draw[1])

\* A backprop that multiplies by a mask of its own: every cell kept.
Dropout_backprop_fresh_mask(ctx, dY) ==
    LET s == MaskScale(50)
        scaled(A) == [r \in DOMAIN A |-> [c \in DOMAIN A[r] |-> A[r][c] * s]]
    IN CASE ctx.fn = "identity" -> dY
         [] ctx.fn = "array" -> Array(scaled(dY.data))
         [] ctx.fn = "padded" ->
               Padded([t \in DOMAIN dY.data |-> scaled(dY.data[t])],
                      dY.size_at_t, dY.lengths, dY.indices)
         [] ctx.fn = "ragged" -> Ragged(scaled(dY.data), dY.lengths)
         [] ctx.fn = "lists" -> List([i \in DOMAIN dY.items |-> scaled(dY.items[i])])

\* The closures forward returns: lambda dY: dY, and the four backprops.
Dropout_backprop(ctx, dY) ==
    CASE ctx.fn = "identity" -> dY
      [] ctx.fn = "array" -> Array(Mul2(dY.data, ctx.mask))
      [] ctx.fn = "padded" ->
            Padded(Mul3(dY.data, ctx.mask), dY.size_at_t, dY.lengths, dY.indices)
      [] ctx.fn = "ragged" -> Ragged(Mul2(dY.data, ctx.mask), dY.lengths)
      [] ctx.fn = "lists" ->
            List([i \in DOMAIN dY.items |-> Mul2(dY.items[i], ctx.masks[i])])

NoCall == [op |-> "none"]

DropoutInit ==
    /\ attrs \in {[dropout_rate |-> r, is_enabled |-> TRUE] : r \in Rates}
    /\ layer = "none"
    /\ dims = <<>>
    /\ layerDims = <<>>
    /\ closures = <<>>
    /\ hist = <<>>
    /\ rng = 0
    /\ last = NoCall

\* model.attrs["is_enabled"] = b, by the owner of the model.
DropoutSetEnabled ==
    \E b \in BOOLEAN :
        /\ attrs' = [attrs EXCEPT !.is_enabled = b]
        /\ UNCHANGED <<layer, dims, layerDims, closures, hist, rng, last>>

DropoutForward ==
    \E X \in DropoutInputs, is_train \in BOOLEAN :
      \E draw \in Dropout_draws(attrs, X, is_train) :
        LET r == Dropout_forward(attrs, X, is_train, draw)
        IN /\ Len(closures) < MaxClosures
           /\ closures' = Append(closures, r.ctx)
           /\ hist' = Append(hist, [X |-> X, Y |-> r.Y, is_train |-> is_train,
                                    rate |-> attrs.dropout_rate,
                                    is_enabled |-> attrs.is_enabled])
           /\ rng' = rng + Len(draw)
           /\ last' = [op |-> "forward", i |-> Len(closures) + 1, arg |-> X,
                       res |-> r.Y, rng0 |-> rng]
           /\ UNCHANGED <<attrs, layer, dims, layerDims>>

DropoutBackward ==
    \E i \in DOMAIN closures :
      \E dY \in GradsLike(hist[i].Y) :
        /\ last' = [op |-> "backward", i |-> i, arg |-> dY,
                    res |-> Dropout_backprop(closures[i], dY), rng0 |-> rng]
        /\ UNCHANGED <<attrs, layer, dims, layerDims, closures, hist, rng>>

DropoutNext == DropoutSetEnabled \/ DropoutForward \/ DropoutBackward

SpecDropout == DropoutInit /\ [][DropoutNext]_vars

\* One forward call and the calls of the backward function it returned.
DropoutForwardOnce == closures = <<>> /\ DropoutForward

DropoutOnceNext == DropoutSetEnabled \/ DropoutForwardOnce \/ DropoutBackward

SpecDropoutOnce == DropoutInit /\ [][DropoutOnceNext]_vars

\* A forward call that met the first branch's condition.
IdentityCall(h) == h.rate = 0 \/ ~h.is_enabled \/ ~h.is_train

\* C1: when rate == 0, or is_enabled is false, or is_train is false, forward
\* returns X itself, whatever its representation, and the backward function it
\* returns gives every gradient back unchanged.
C1_IdentityForwardBackward ==
    /\ \A i \in DOMAIN hist : IdentityCall(hist[i]) => hist[i].Y = hist[i].X
    /\ (last.op = "backward" /\ IdentityCall(hist[last.i])) => last.res = last.arg

\* C1 happens: a disabled layer with a nonzero rate, in training mode, was given
\* a Ragged and its backward function was called.
C1_Witness ==
    /\ last.op = "backward"
    /\ hist[last.i].rate # 0 /\ ~hist[last.i].is_enabled /\ hist[last.i].is_train
    /\ hist[last.i].X.kind = "ragged"
    /\ last.res = last.arg

\* The masks a closure holds, and a container multiplied by them.
MasksOf(ctx) == IF ctx.fn = "lists" THEN ctx.masks ELSE <<ctx.mask>>
TimesMasks(Z, ms) ==
    CASE Z.kind = "array" -> Array(Mul2(Z.data, ms[1]))
      [] Z.kind = "ragged" -> Ragged(Mul2(Z.data, ms[1]), Z.lengths)
      [] Z.kind = "padded" -> Padded(Mul3(Z.data, ms[1]), Z.size_at_t, Z.lengths, Z.indices)
      [] Z.kind = "list" -> List([k \in DOMAIN Z.items |-> Mul2(Z.items[k], ms[k])])

\* C2: with a rate in (0,1) in training mode each forward call draws its own
\* mask (one, or one per item of a list) and its closure multiplies by exactly
\* that mask at every call: a closure is never changed once made (not by a
\* backward call, not by a later forward call), a backward call draws nothing,
\* what it returns is the gradient times the mask that made the forward
\* output, and calling it again on the same gradient returns the same.
C2_MaskFixedAtForward ==
    [][ /\ \A i \in DOMAIN closures :
              i \in DOMAIN closures' /\ closures'[i] = closures[i] /\ hist'[i] = hist[i]
        /\ Len(closures') > Len(closures) =>
              LET h == hist'[Len(hist')]
              IN rng' - rng = (IF IdentityCall(h) THEN 0
                               ELSE IF h.X.kind = "list" THEN Len(h.X.items) ELSE 1)
        /\ last'.op = "backward" =>
              LET h == hist'[last'.i]
                  ms == MasksOf(closures'[last'.i])
              IN /\ rng' = rng
                 /\ ~IdentityCall(h) =>
                       /\ h.Y = TimesMasks(h.X, ms)
                       /\ last'.res = TimesMasks(last'.arg, ms)
        /\ (last.op = "backward" /\ last'.op = "backward"
               /\ last'.i = last.i /\ last'.arg = last.arg) => last'.res = last.res
      ]_vars

\* C2 happens: two list forwards drew different masks, and the first one's
\* backward function was called after the second forward.
C2_Witness ==
    /\ Len(closures) = 2
    /\ closures[1].fn = "lists" /\ closures[2].fn = "lists"
    /\ Len(closures[1].masks) = 2
    /\ closures[1].masks # closures[2].masks
    /\ last.op = "backward" /\ last.i = 1
    /\ last.res # last.arg

\* ------------------------------------------------- the wrapped 2d transform
\* model.layers[0] of with_array2d: a transform of 2d arrays that keeps the
\* rows, with its backward.  identity; scale (twice the input); widen (the row
\* and the sum of its cells: one feature more); window (the sum of a row and
\* its two neighbours, a receptive field of one row on each side).
Layers2 == {"identity", "scale", "widen", "window"}

RowAt(X, r) == IF r \in DOMAIN X THEN X[r] ELSE ZeroRow(Len(X[1]))

Layer2_forward(lyr, X) ==
    CASE lyr = "identity" -> X
      [] lyr = "scale" -> [r \in DOMAIN X |-> [c \in DOMAIN X[r] |-> 2 * X[r][c]]]
      [] lyr = "widen" -> [r \in DOMAIN X |-> Append(X[r], SumSeq(X[r]))]
      [] lyr = "window" ->
            [r \in DOMAIN X |->
                [c \in DOMAIN X[r] |->
                    RowAt(X, r - 1)[c] + X[r][c] + RowAt(X, r + 1)[c]]]

\* The transform's backward, for a forward input of shape xshape.
Layer2_backward(lyr, xshape, dY) ==
    CASE lyr = "identity" -> dY
      [] lyr = "scale" -> [r \in DOMAIN dY |-> [c \in DOMAIN dY[r] |-> 2 * dY[r][c]]]
      [] lyr = "widen" ->
            [r \in DOMAIN dY |->
                [c \in 1..xshape[2] |-> dY[r][c] + dY[r][xshape[2] + 1]]]
      [] lyr = "window" ->
            [r \in DOMAIN dY |->
                [c \in DOMAIN dY[r] |->
                    RowAt(dY, r - 1)[c] + dY[r][c] + RowAt(dY, r + 1)[c]]]

\* ------------------------------------------------------------ with_array2d
\* Each forward gives the output Y, the closure's captured values ctx and the
\* arrays it handed to the wrapped transform (calls); each backprop gives the
\* gradient dX and the arrays it handed to the transform's backward (calls).

\* A list forward that ignores the pad attribute.
A2d_list_forward_no_pad(pad, lyr, Xs) ==
    LET lengths == Lengths(Xs.items)
        Xf == Flatten(Xs.items, 0)
        Yf == Layer2_forward(lyr, Xf)
    IN [Y |-> List(Unflatten(Yf, lengths, 0)),
        ctx |-> [fn |-> "list", pad |-> 0, lengths |-> lengths,
                 layer |-> lyr, xshape |-> Shape2(Xf)],
        calls |-> <<Xf>>]

A2d_list_forward(pad, lyr, Xs) ==
    LET lengths == Lengths(Xs.items)
        Xf == Flatten(Xs.items, pad)
        Yf == Layer2_forward(lyr, Xf)
    IN [Y |-> List(Unflatten(Yf, lengths, pad)),
        ctx |-> [fn |-> "list", pad |-> pad, lengths |-> lengths,
                 layer |-> lyr, xshape |-> Shape2(Xf)],
        calls |-> <<Xf>>]

\* A list backprop that flattens the gradient without the pad.
A2d_list_backprop_flat_no_pad(ctx, dYs) ==
    LET dYf == Flatten(dYs.items, 0)
        dXf == Layer2_backward(ctx.layer, ctx.xshape, dYf)
    IN [dX |-> List(Unflatten(dXf, ctx.lengths, ctx.pad)), calls |-> <<dYf>>]

A2d_list_backprop(ctx, dYs) ==
    LET dYf == Flatten(dYs.items, ctx.pad)
        dXf == Layer2_backward(ctx.layer, ctx.xshape, dYf)
    IN [dX |-> List(Unflatten(dXf, ctx.lengths, ctx.pad)), calls |-> <<dYf>>]

A2d_ragged_forward(lyr, Xr) ==
    LET Y == Layer2_forward(lyr, Xr.data)
        x_shape == Shape2(Xr.data)
    IN [Y |-> Ragged(Y, Xr.lengths),
        ctx |-> [fn |-> "ragged", x_shape |-> x_shape,
                 layer |-> lyr, xshape |-> Shape2(Xr.data)],
        calls |-> <<Xr.data>>]

\* A ragged backprop that reshapes to the axes of x_shape swapped.
A2d_ragged_backprop_swapped(ctx, dYr) ==
    [dX |-> Ragged(ReshapeTo(Layer2_backward(ctx.layer, ctx.xshape, dYr.data),
                             <<ctx.x_shape[2], ctx.x_shape[1]>>),
                   dYr.lengths),
     calls |-> <<dYr.data>>]

A2d_ragged_backprop(ctx, dYr) ==
    [dX |-> Ragged(ReshapeTo(Layer2_backward(ctx.layer, ctx.xshape, dYr.data),
                             ctx.x_shape),
                   dYr.lengths),
     calls |-> <<dYr.data>>]

\* A padded forward that expands with the time and batch extents swapped.
A2d_padded_forward_swapped(lyr, Xp) ==
    LET sh == Shape3(Xp.data)
        X == Reshape2(Xp.data, sh[1] * sh[2], sh[3])
        Y2d == Layer2_forward(lyr, X)
        Y == Reshape3(Y2d, sh[2], sh[1], Shape2(Y2d)[2])
    IN [Y |-> Padded(Y, Xp.size_at_t, Xp.lengths, Xp.indices),
        ctx |-> [fn |-> "padded", layer |-> lyr, xshape |-> Shape2(X)],
        calls |-> <<X>>]

A2d_padded_forward(lyr, Xp) ==
    LET sh == Shape3(Xp.data)
        X == Reshape2(Xp.data, sh[1] * sh[2], sh[3])
        Y2d == Layer2_forward(lyr, X)
        Y == Reshape3(Y2d, sh[1], sh[2], Shape2(Y2d)[2])
    IN [Y |-> Padded(Y, Xp.size_at_t, Xp.lengths, Xp.indices),
        ctx |-> [fn |-> "padded", layer |-> lyr, xshape |-> Shape2(X)],
        calls |-> <<X>>]

A2d_padded_backprop(ctx, dYp) ==
    LET sh == Shape3(dYp.data)
        dY == Reshape2(dYp.data, sh[1] * sh[2], sh[3])
        dX2d == Layer2_backward(ctx.layer, ctx.xshape, dY)
        dX == Reshape3(dX2d, sh[1], sh[2], Shape2(dX2d)[2])
    IN [dX |-> Padded(dX, dYp.size_at_t, dYp.lengths, dYp.indices), calls |-> <<dY>>]

\* forward: the dispatch on the input's type.
A2d_forward(a, lyr, Xseq) ==
    IF Xseq.kind = "ragged" THEN A2d_ragged_forward(lyr, Xseq)
    ELSE IF Xseq.kind = "padded" THEN A2d_padded_forward(lyr, Xseq)
    ELSE IF Xseq.kind \notin {"list", "tuple"} THEN
        [Y |-> Array(Layer2_forward(lyr, Xseq.data)),
         ctx |-> [fn |-> "array", layer |-> lyr, xshape |-> Shape2(Xseq.data)],
         calls |-> <<Xseq.data>>]
    ELSE A2d_list_forward(a.pad, lyr, Xseq)

\* The backprop forward returned, called on a gradient.
A2d_backprop(ctx, dY) ==
    CASE ctx.fn = "ragged" -> A2d_ragged_backprop(ctx, dY)
      [] ctx.fn = "padded" -> A2d_padded_backprop(ctx, dY)
      [] ctx.fn = "array" ->
            [dX |-> Array(Layer2_backward(ctx.layer, ctx.xshape, dY.data)),
             calls |-> <<dY.data>>]
      [] ctx.fn = "list" -> A2d_list_backprop(ctx, dY)

\* The inputs given to with_array2d, and the gradients given to a backprop:
\* shaped like the forward output, a Ragged gradient with any lengths that
\* partition its rows.
A2dInputs ==
    UNION {SeqInputs(f, MaxLen, MaxItems)
             \cup {Tuple(Xs) : Xs \in Lists(f, MaxLen, MaxItems)} : f \in 1..MaxFeat}

A2dGrads(Y) ==
    IF Y.kind = "ragged"
    THEN {Ragged(G.data, ls) : G \in GradsLike(Y),
            ls \in {l \in LenSeqs(MaxLen, MaxItems) : SumSeq(l) = Len(Y.data)}}
    ELSE GradsLike(Y)

A2dInit ==
    /\ attrs \in {[pad |-> p] : p \in 0..MaxPad}
    /\ layer \in Layers2
    /\ dims = <<>>
    /\ layerDims = <<>>
    /\ closures = <<>>
    /\ hist = <<>>
    /\ rng = 0
    /\ last = NoCall

\* One forward/backward pair is followed at a time.
A2dForward ==
    \E Xseq \in A2dInputs :
        LET r == A2d_forward(attrs, layer, Xseq)
        IN /\ closures = <<>>
           /\ closures' = <<r.ctx>>
           /\ hist' = <<[X |-> Xseq, Y |-> r.Y]>>
           /\ last' = [op |-> "forward", i |-> 1, arg |-> Xseq, res |-> r.Y,
                       calls |-> r.calls]
           /\ UNCHANGED <<attrs, layer, dims, layerDims, rng>>

A2dBackward ==
    \E i \in DOMAIN closures :
      \E dY \in A2dGrads(hist[i].Y) :
        LET r == A2d_backprop(closures[i], dY)
        IN /\ last' = [op |-> "backward", i |-> i, arg |-> dY, res |-> r.dX,
                       calls |-> r.calls]
           /\ UNCHANGED <<attrs, layer, dims, layerDims, closures, hist, rng>>

A2dNext == A2dForward \/ A2dBackward

SpecA2d == A2dInit /\ [][A2dNext]_vars

\* The forward call behind the last call, and what the list path flattens to.
Fwd == hist[1]
IsListCall == Len(hist) = 1 /\ Fwd.X.kind \in {"list", "tuple"}
FlatRows(lens, pad) == SumSeq(lens) + pad * (Len(lens) - 1)
SameLengths(Zs, Xs) ==
    /\ Len(Zs) = Len(Xs)
    /\ \A k \in DOMAIN Xs : Len(Zs[k]) = Len(Xs[k])

\* C3 as stated: in the Ragged path the forward output carries the input's
\* lengths, and the backward result has the forward input's payload shape and
\* the forward input's lengths.
C3_Original ==
    (Len(hist) = 1 /\ Fwd.X.kind = "ragged") =>
        /\ Fwd.Y.kind = "ragged" /\ Fwd.Y.lengths = Fwd.X.lengths
        /\ last.op = "backward" =>
              /\ last.res.kind = "ragged"
              /\ Shape2(last.res.data) = Shape2(Fwd.X.data)
              /\ last.res.lengths = Fwd.X.lengths

\* C3, amended: in the Ragged path the forward output carries the input's
\* lengths; the backward result has the forward input's payload shape, also
\* when the transform changed the feature dimension, and carries the lengths
\* of the gradient it was given, which are the forward input's lengths when
\* the gradient has the forward output's lengths.
C3_RaggedBackwardShape ==
    (Len(hist) = 1 /\ Fwd.X.kind = "ragged") =>
        /\ Fwd.Y.kind = "ragged" /\ Fwd.Y.lengths = Fwd.X.lengths
        /\ last.op = "backward" =>
              /\ last.res.kind = "ragged"
              /\ Shape2(last.res.data) = Shape2(Fwd.X.data)
              /\ last.res.lengths = last.arg.lengths
              /\ last.arg.lengths = Fwd.Y.lengths => last.res.lengths = Fwd.X.lengths

\* C3 happens: a Ragged of lengths (1, 2) went through the widening transform
\* and the backward was given a gradient with the output's lengths.
C3_Witness ==
    /\ layer = "widen"
    /\ last.op = "backward"
    /\ Fwd.X.kind = "ragged" /\ Fwd.X.lengths = <<1, 2>>
    /\ Shape2(Fwd.Y.data) # Shape2(Fwd.X.data)
    /\ last.arg.lengths = Fwd.Y.lengths
    /\ last.res.lengths = <<1, 2>>

\* C4: in the list path, for every pad, the forward output and the backward
\* result are lists with as many items as the input, item k as long as input
\* item k and in the input's order; the flattened arrays of the forward and
\* of the backward are laid out with the same pad; the wrapped transform runs
\* once per forward and its backward once per backward.
C4_ListLengthsAndPad ==
    IsListCall =>
        /\ Fwd.Y.kind = "list"
        /\ SameLengths(Fwd.Y.items, Fwd.X.items)
        /\ layer = "identity" => Fwd.Y.items = Fwd.X.items
        /\ Len(last.calls) = 1
        /\ Len(last.calls[1]) = FlatRows(Lengths(Fwd.X.items), attrs.pad)
        /\ last.op = "backward" =>
              /\ last.res.kind = "list"
              /\ SameLengths(last.res.items, Fwd.X.items)
              /\ layer = "identity" => last.res.items = last.arg.items

\* C4 happens: with a pad of one row, a list of items of 2 rows and 1 row was
\* run forward and its backward was called.
C4_Witness ==
    /\ attrs.pad >= 1
    /\ last.op = "backward"
    /\ Fwd.X.kind = "list"
    /\ Lengths(Fwd.X.items) = <<2, 1>>
    /\ Lengths(last.res.items) = <<2, 1>>

\* C5: with pad = 1 and a transform whose output row reads the input rows at
\* distance <= 1, the output for an item of a two-item list is the same in
\* every run on a two-item list that has the same item at that place, whatever
\* the other item is.
C5_PaddingIsolation ==
    (last.op = "forward" /\ attrs.pad = 1 /\ layer = "window"
        /\ last.arg.kind = "list" /\ Len(last.arg.items) = 2) =>
        \A alt \in {ListOf(lens, tags, Len(last.arg.items[1][1])) :
                       lens \in [1..2 -> 1..MaxLen], tags \in [1..2 -> 0..MaxTag]} :
            \A k \in 1..2 :
                alt[k] = last.arg.items[k] =>
                    A2d_forward(attrs, layer, List(alt)).Y.items[k] = last.res.items[k]

\* C5 happens: the windowed transform ran with pad = 1 on two different items
\* of two rows each.
C5_Witness ==
    /\ last.op = "forward" /\ attrs.pad = 1 /\ layer = "window"
    /\ last.arg.kind = "list" /\ Len(last.arg.items) = 2
    /\ Len(last.arg.items[1]) = 2 /\ Len(last.arg.items[2]) = 2
    /\ last.arg.items[1] # last.arg.items[2]
    /\ last.res.items # last.arg.items

\* C9: in the Padded path element (t, b) of the (T, B, F) data is row t*B + b
\* (counting from 0) of the array given to the transform, row t*B + b of the
\* transform's output is element (t, b) of the output data, the output keeps
\* size_at_t, lengths and indices; the backward does the same with the
\* gradient and returns data of the forward input's shape; an identity
\* transform gives the input data back.
C9_PaddedCollapseExpand ==
    (Len(hist) = 1 /\ Fwd.X.kind = "padded") =>
        LET T == Len(Fwd.X.data)
            B == Len(Fwd.X.data[1])
            X2 == last.calls[1]
            in3 == last.arg.data
            out3 == last.res.data
            out2 == IF last.op = "forward" THEN Layer2_forward(layer, X2)
                    ELSE Layer2_backward(layer, <<T * B, Len(Fwd.X.data[1][1])>>, X2)
        IN /\ Len(last.calls) = 1
           /\ Len(X2) = T * B
           /\ Len(out3) = T
           /\ \A t \in 1..T :
                 /\ Len(out3[t]) = B
                 /\ \A b \in 1..B :
                       /\ X2[(t - 1) * B + b] = in3[t][b]
                       /\ out3[t][b] = out2[(t - 1) * B + b]
           /\ last.op = "forward" =>
                 /\ last.res.size_at_t = last.arg.size_at_t
                 /\ last.res.lengths = last.arg.lengths
                 /\ last.res.indices = last.arg.indices
           /\ last.op = "backward" => Shape3(out3) = Shape3(Fwd.X.data)
           /\ layer = "identity" => out3 = in3

\* C9 happens: a Padded of 2 steps, a batch of 1 and 2 features went through
\* the widening transform, and its backward was called.
C9_Witness ==
    /\ layer = "widen"
    /\ last.op = "backward"
    /\ Fwd.X.kind = "padded"
    /\ Shape3(Fwd.X.data) = <<2, 1, 2>>
    /\ Shape3(Fwd.Y.data) = <<2, 1, 3>>
    /\ Shape3(last.res.data) = <<2, 1, 2>>

\* ----------------------------------------------------- with_array2d: init
DimNames == {"nI", "nO"}

\* with_array2d(layer, pad): the dims argument of Model(...).
A2d_construct_dims(ld) == [name \in DOMAIN ld |-> ld[name]]

\* layer.initialize(X, Y) of the wrapped transform: it resolves the input and
\* output widths it does not know yet from the samples it is given.
Layer_initialize(ld, X, Y) ==
    [name \in DOMAIN ld |->
        IF name = "nI" /\ ld[name] = None /\ X # None THEN Some(Shape2(X[1])[2])
        ELSE IF name = "nO" /\ ld[name] = None /\ Y # None THEN Some(Shape2(Y[1])[2])
        ELSE ld[name]]

A2d_get_array(X) ==
    IF X.kind = "ragged" THEN X.data
    ELSE IF X.kind = "padded" THEN
        Reshape2(X.data, Shape3(X.data)[1] * Shape3(X.data)[2], Shape3(X.data)[3])
    ELSE IF X.kind \notin {"list", "tuple"} THEN X.data
    ELSE Flatten(X.items, 0)

\* An init whose loop copies nothing.
A2d_init_copy_nothing(d, ld) == d

\* init, its loop over layer.dim_names: the adapter's table after it.
A2d_init_copy(d, ld) ==
    [name \in DOMAIN d |-> IF ld[name] # None THEN ld[name] ELSE d[name]]

\* The samples given to init, (X, Y): each is None or a sample; Y is a sample
\* of the output for X, which has the representation and the lengths of X and
\* a width of its own.
A2dSampleOf(kind, lens, f) ==
    LET Xs == ListOf(lens, [i \in DOMAIN lens |-> 0], f)
    IN CASE kind = "array" -> Array(Arr(SumSeq(lens), f, 1))
         [] kind = "list" -> List(Xs)
         [] kind = "tuple" -> Tuple(Xs)
         [] kind = "ragged" -> Ragged(Flatten(Xs, 0), lens)
         [] kind = "padded" -> List2Padded(Xs)
A2dSamples ==
    UNION {{None, Some(A2dSampleOf(kind, lens, fX))}
             \X {None, Some(A2dSampleOf(kind, lens, fY))} :
               kind \in {"array", "list", "tuple", "ragged", "padded"},
               lens \in LenSeqs(MaxLen, MaxItems),
               fX \in 1..MaxFeat, fY \in 1..MaxFeat}

A2dInitInit ==
    /\ attrs \in {[pad |-> p] : p \in 0..MaxPad}
    /\ layer = "identity"
    /\ layerDims \in [DimNames -> {None} \cup {Some(n) : n \in 1..MaxFeat}]
    /\ dims = A2d_construct_dims(layerDims)
    /\ closures = <<>>
    /\ hist = <<>>
    /\ rng = 0
    /\ last = NoCall

\* init is followed once from each construction: every table a repeated init
\* can start from is a table of some construction.
A2dInitialize ==
    \E XY \in A2dSamples :
        LET X == XY[1]
            Y == XY[2]
            aX == IF X # None THEN Some(A2d_get_array(X[1])) ELSE X
            aY == IF Y # None THEN Some(A2d_get_array(Y[1])) ELSE Y
            ld == Layer_initialize(layerDims, aX, aY)
        IN /\ last = NoCall
           /\ layerDims' = ld
           /\ dims' = A2d_init_copy(dims, ld)
           /\ last' = [op |-> "init", X |-> X, Y |-> Y, layerX |-> aX, layerY |-> aY,
                       dims0 |-> dims, calls |-> <<>>]
           /\ UNCHANGED <<attrs, layer, closures, hist, rng>>

A2dInitNext == A2dInitialize

SpecA2dInit == A2dInitInit /\ [][A2dInitNext]_vars

\* The dense 2d payload of a sample.
IsPayloadOf(A, S) ==
    CASE S.kind = "ragged" -> A = S.data
      [] S.kind = "padded" ->
            LET T == Len(S.data)
                B == Len(S.data[1])
            IN /\ Len(A) = T * B
               /\ \A t \in 1..T : \A b \in 1..B : A[(t - 1) * B + b] = S.data[t][b]
      [] S.kind \in {"list", "tuple"} -> A = Concat(S.items)
      [] S.kind = "array" -> A = S.data

\* C6: when init has completed, with or without samples, the adapter's value
\* of every dimension of the wrapped transform's table is the transform's
\* value; the transform's initializer was given the dense 2d payload of each
\* sample, and no transform forward was run.
C6_DimsMirrorAfterInit ==
    last.op = "init" =>
        /\ \A name \in DOMAIN layerDims : dims[name] = layerDims[name]
        /\ IF last.X = None THEN last.layerX = None
           ELSE last.layerX # None /\ IsPayloadOf(last.layerX[1], last.X[1])
        /\ IF last.Y = None THEN last.layerY = None
           ELSE last.layerY # None /\ IsPayloadOf(last.layerY[1], last.Y[1])
        /\ last.calls = <<>>

\* C6 happens: the adapter knew neither width, and init with a Padded sample
\* of 2 features and a Padded sample of 1 feature resolved both.
C6_Witness ==
    /\ last.op = "init"
    /\ last.dims0 = [name \in DimNames |-> None]
    /\ last.X # None /\ last.X[1].kind = "padded"
    /\ last.Y # None /\ last.Y[1].kind = "padded"
    /\ dims["nI"] = Some(2) /\ dims["nO"] = Some(1)

\* ----------------------------------------------- the wrapped Padded transform
\* model.layers[0] of with_padded: a transform of Padded that keeps the shape
\* and the metadata, with its backward.  identity; scale (twice the data).
LayersP == {"identity", "scale"}

Scale3(A) ==
    [t \in DOMAIN A |-> [b \in DOMAIN A[t] |-> [c \in DOMAIN A[t][b] |-> 2 * A[t][b][c]]]]

LayerP_forward(lyr, Xp) ==
    IF lyr = "scale" THEN Padded(Scale3(Xp.data), Xp.size_at_t, Xp.lengths, Xp.indices)
    ELSE Xp

LayerP_backward(lyr, dYp) ==
    IF lyr = "scale" THEN Padded(Scale3(dYp.data), dYp.size_at_t, dYp.lengths, dYp.indices)
    ELSE dYp

\* -------------------------------------------------------------- with_padded
AssertionError == [kind |-> "AssertionError"]

\* util.is_xp_array
is_xp_array(seq) == seq.kind = "array"

\* The elements of a tuple are arrays throughout.
Pad_is_padded_data(seq) == seq.kind = "tuple" /\ Len(seq.items) = 4

\* Padded(*seq) of a 4-tuple.
PaddedOfTuple(seq) == Padded(seq.items[1], seq.items[2], seq.items[3], seq.items[4])
TupleOfPadded(P) == Tuple(<<P.data, P.size_at_t, P.lengths, P.indices>>)

\* A _get_padded that takes the time extent for the batch extent.
Pad_get_padded_swapped(seq) ==
    IF seq.kind = "padded" THEN seq
    ELSE IF seq.kind = "ragged" THEN List2Padded(Unflatten(seq.data, seq.lengths, 0))
    ELSE IF Pad_is_padded_data(seq) THEN PaddedOfTuple(seq)
    ELSE IF is_xp_array(seq) THEN
        LET shape == Shape3(seq.data)
        IN Padded(seq.data,
                  [t \in 1..shape[2] |-> shape[1]],
                  [b \in 1..shape[1] |-> shape[2]],
                  [b \in 1..shape[1] |-> b - 1])
    ELSE IF seq.kind = "list" THEN List2Padded(seq.items)
    ELSE AssertionError

Pad_get_padded(seq) ==
    IF seq.kind = "padded" THEN seq
    ELSE IF seq.kind = "ragged" THEN List2Padded(Unflatten(seq.data, seq.lengths, 0))
    ELSE IF Pad_is_padded_data(seq) THEN PaddedOfTuple(seq)
    ELSE IF is_xp_array(seq) THEN
        LET shape == Shape3(seq.data)
        IN Padded(seq.data,
                  [t \in 1..shape[1] |-> shape[2]],
                  [b \in 1..shape[2] |-> shape[1]],
                  [b \in 1..shape[2] |-> b - 1])
    ELSE IF seq.kind = "list" THEN List2Padded(seq.items)
    ELSE AssertionError

Pad_array_forward(lyr, X) ==
    LET Xp == Pad_get_padded(X)
        Yp == LayerP_forward(lyr, Xp)
    IN [Y |-> Array(Yp.data),
        ctx |-> [fn |-> "array", layer |-> lyr, size_at_t |-> Xp.size_at_t,
                 lengths |-> Xp.lengths, indices |-> Xp.indices],
        calls |-> <<Xp>>]

Pad_array_backprop(ctx, dY) ==
    LET dYp == Padded(dY.data, ctx.size_at_t, ctx.lengths, ctx.indices)
        dXp == LayerP_backward(ctx.layer, dYp)
    IN [dX |-> Array(dXp.data), calls |-> <<dYp>>]

Pad_tuple_forward(lyr, X) ==
    LET Yp == LayerP_forward(lyr, PaddedOfTuple(X))
    IN [Y |-> TupleOfPadded(Yp), ctx |-> [fn |-> "tuple", layer |-> lyr],
        calls |-> <<PaddedOfTuple(X)>>]

Pad_tuple_backprop(ctx, dY) ==
    LET dXp == LayerP_backward(ctx.layer, PaddedOfTuple(dY))
    IN [dX |-> TupleOfPadded(dXp), calls |-> <<PaddedOfTuple(dY)>>]

Pad_ragged_forward(lyr, Xr) ==
    LET Xp == List2Padded(Unflatten(Xr.data, Xr.lengths, 0))
        Yp == LayerP_forward(lyr, Xp)
        flattened == Flatten(Padded2List(Yp), 0)
    IN [Y |-> Ragged(flattened, Xr.lengths), ctx |-> [fn |-> "ragged", layer |-> lyr],
        calls |-> <<Xp>>]

Pad_ragged_backprop(ctx, dYr) ==
    LET dYp == List2Padded(Unflatten(dYr.data, dYr.lengths, 0))
        flattened == Flatten(Padded2List(LayerP_backward(ctx.layer, dYp)), 0)
    IN [dX |-> Ragged(flattened, dYr.lengths), calls |-> <<dYp>>]

\* A list forward that reads the items off the batch axis in batch order.
Pad_list_forward_batch_order(lyr, Xs) ==
    LET Xp == List2Padded(Xs.items)
        Yp == LayerP_forward(lyr, Xp)
    IN [Y |-> List([b \in DOMAIN Yp.indices |->
                      [t \in 1..Yp.lengths[Yp.indices[b] + 1] |-> Yp.data[t][b]]]),
        ctx |-> [fn |-> "list", layer |-> lyr],
        calls |-> <<Xp>>]

Pad_list_forward(lyr, Xs) ==
    LET Xp == List2Padded(Xs.items)
        Yp == LayerP_forward(lyr, Xp)
    IN [Y |-> List(Padded2List(Yp)), ctx |-> [fn |-> "list", layer |-> lyr],
        calls |-> <<Xp>>]

Pad_list_backprop(ctx, dYs) ==
    LET dYp == List2Padded(dYs.items)
    IN [dX |-> List(Padded2List(LayerP_backward(ctx.layer, dYp))), calls |-> <<dYp>>]

\* forward: the dispatch on the input's type, and the branch it took.
Pad_forward(lyr, Xseq) ==
    IF Xseq.kind = "padded" THEN
        [Y |-> LayerP_forward(lyr, Xseq), ctx |-> [fn |-> "padded", layer |-> lyr],
         calls |-> <<Xseq>>]
    ELSE IF Xseq.kind = "ragged" THEN Pad_ragged_forward(lyr, Xseq)
    ELSE IF Pad_is_padded_data(Xseq) THEN Pad_tuple_forward(lyr, Xseq)
    ELSE IF is_xp_array(Xseq) THEN Pad_array_forward(lyr, Xseq)
    ELSE Pad_list_forward(lyr, Xseq)

Pad_backprop(ctx, dY) ==
    CASE ctx.fn = "padded" -> [dX |-> LayerP_backward(ctx.layer, dY), calls |-> <<dY>>]
      [] ctx.fn = "ragged" -> Pad_ragged_backprop(ctx, dY)
      [] ctx.fn = "tuple" -> Pad_tuple_backprop(ctx, dY)
      [] ctx.fn = "array" -> Pad_array_backprop(ctx, dY)
      [] ctx.fn = "list" -> Pad_list_backprop(ctx, dY)

\* The inputs given to with_padded.  The items of a list differ from each
\* other; a tuple that is not a 4-tuple holds 2d arrays.
Arr3(T, B, f, tag) == [t \in 1..T |-> Arr(B, f, 10 * tag + t)]
PadLists(f) == Lists(f, PadLen, PadItems)
PadInputsOf(f) ==
    {List(Xs) : Xs \in PadLists(f)}
    \cup {Tuple(Xs) : Xs \in {Zs \in PadLists(f) : Len(Zs) # 4}}
    \cup {Ragged(Flatten(Xs, 0), Lengths(Xs)) : Xs \in PadLists(f)}
    \cup {List2Padded(Xs) : Xs \in PadLists(f)}
    \cup {TupleOfPadded(List2Padded(Xs)) : Xs \in PadLists(f)}
    \cup {Array(Arr3(T, B, f, 0)) : T \in 1..PadLen, B \in 1..PadItems}
PadInputs == UNION {PadInputsOf(f) : f \in 1..MaxFeat}

\* The gradients given to a backprop: shaped like the forward output.
PadGrads(Y) ==
    CASE Y.kind = "tuple" /\ Len(Y.items) = 4 ->
            {TupleOfPadded(G) : G \in GradsLike(PaddedOfTuple(Y))}
      [] Y.kind = "array" -> {Array(Retag3(Y.data, tag)) : tag \in 1..MaxTag}
      [] OTHER -> GradsLike(Y)

PadInit ==
    /\ attrs = <<>>
    /\ layer \in LayersP
    /\ dims = <<>>
    /\ layerDims = <<>>
    /\ closures = <<>>
    /\ hist = <<>>
    /\ rng = 0
    /\ last = NoCall

\* One forward/backward pair is followed at a time.
PadForward ==
    \E Xseq \in PadInputs :
        LET r == Pad_forward(layer, Xseq)
        IN /\ closures = <<>>
           /\ closures' = <<r.ctx>>
           /\ hist' = <<[X |-> Xseq, Y |-> r.Y]>>
           /\ last' = [op |-> "forward", i |-> 1, arg |-> Xseq, res |-> r.Y,
                       calls |-> r.calls, branch |-> r.ctx.fn]
           /\ UNCHANGED <<attrs, layer, dims, layerDims, rng>>

PadBackward ==
    \E i \in DOMAIN closures :
      \E dY \in PadGrads(hist[i].Y) :
        LET r == Pad_backprop(closures[i], dY)
        IN /\ last' = [op |-> "backward", i |-> i, arg |-> dY, res |-> r.dX,
                       calls |-> r.calls, branch |-> closures[i].fn]
           /\ UNCHANGED <<attrs, layer, dims, layerDims, closures, hist, rng>>

PadNext == PadForward \/ PadBackward

SpecPad == PadInit /\ [][PadNext]_vars

NonIncreasing(q) == \A a, b \in DOMAIN q : a < b => q[a] >= q[b]
IsPermutation(q) == {q[b] : b \in DOMAIN q} = 0..(Len(q) - 1)

\* C7: with_padded on a list hands the wrapped transform a Padded whose batch
\* is sorted by descending length (size_at_t non-increasing, indices a
\* permutation of the item positions, batch entry b holding item indices[b]),
\* and with an identity transform the forward output is the input list, items,
\* order and lengths, and the backward result is the gradient list likewise;
\* on a Ragged the output is the input, and the backward result the gradient,
\* payload rows and lengths in their order.
C7_OrderAndLengthRoundTrip ==
    /\ (Len(closures) = 1 /\ closures[1].fn = "list") =>
          LET P == last.calls[1]
              items == last.arg.items
          IN /\ P.kind = "padded"
             /\ NonIncreasing(P.size_at_t)
             /\ IsPermutation(P.indices)
             /\ Len(P.indices) = Len(items)
             /\ NonIncreasing([b \in DOMAIN P.indices |-> Len(items[P.indices[b] + 1])])
             /\ \A b \in DOMAIN P.indices :
                   \A t \in DOMAIN items[P.indices[b] + 1] :
                       P.data[t][b] = items[P.indices[b] + 1][t]
             /\ last.res.kind = "list"
             /\ SameLengths(last.res.items, items)
             /\ layer = "identity" => last.res.items = items
    /\ (Len(closures) = 1 /\ closures[1].fn = "ragged") =>
          /\ last.res.kind = "ragged"
          /\ last.res.lengths = last.arg.lengths
          /\ Shape2(last.res.data) = Shape2(last.arg.data)
          /\ layer = "identity" => last.res.data = last.arg.data

\* C7 happens: a list of lengths (3, 1, 2) went through the identity transform
\* as a Padded with indices (0, 2, 1), and the backward was called.
C7_Witness ==
    /\ layer = "identity"
    /\ last.op = "backward"
    /\ closures[1].fn = "list"
    /\ Lengths(hist[1].X.items) = <<3, 1, 2>>
    /\ Lengths(hist[1].Y.items) = <<3, 1, 2>>
    /\ last.calls[1].indices = <<0, 2, 1>>
    /\ last.calls[1].size_at_t = <<3, 2, 1>>
    /\ Lengths(last.res.items) = <<3, 1, 2>>

\* C8 as stated: an input that is none of the known representations, such as
\* a tuple of arrays whose arity is not 4, is refused by forward: no conversion
\* branch is taken and the wrapped transform is not run.
C8_UnrecognizedIsRefused ==
    (last.op = "forward" /\ last.arg.kind = "tuple" /\ Len(last.arg.items) # 4) =>
        /\ last.branch = "error"
        /\ last.calls = <<>>

\* C10: with_padded on a 3d array of shape (T, B, F) hands the transform a
\* Padded of that array with size_at_t = T times B, lengths = B times T and
\* indices = 0..B-1, and returns the output's data alone; the backward wraps
\* the gradient with the same three arrays and returns the data alone of the
\* transform's backward result.
C10_ArrayAsFullBatch ==
    (Len(closures) = 1 /\ closures[1].fn = "array") =>
        LET T == Len(hist[1].X.data)
            B == Len(hist[1].X.data[1])
            P == last.calls[1]
        IN /\ Len(last.calls) = 1
           /\ P = Padded(last.arg.data, [t \in 1..T |-> B], [b \in 1..B |-> T],
                         [b \in 1..B |-> b - 1])
           /\ last.res.kind = "array"
           /\ last.op = "forward" => last.res = Array(LayerP_forward(layer, P).data)
           /\ last.op = "backward" => last.res = Array(LayerP_backward(layer, P).data)

\* C10 happens: an array of 3 steps and a batch of 2 was run forward and its
\* backward was called.
C10_Witness ==
    /\ last.op = "backward"
    /\ closures[1].fn = "array"
    /\ Len(hist[1].X.data) = 3 /\ Len(hist[1].X.data[1]) = 2
    /\ last.calls[1].size_at_t = <<2, 2, 2>>
    /\ last.calls[1].lengths = <<3, 3>>
    /\ last.calls[1].indices = <<0, 1>>

====
